---- MODULE Spec2Model ----
(***************************************************************************)
(* HP 2D lattice folding: lattice primitives and energy (hp.py), the move  *)
(* engine (moves.py), the Metropolis driver (monte_carlo.py) and the       *)
(* replica-exchange driver (remc.py).                                      *)
(*                                                                         *)
(* Conventions.  A coordinate is a pair <<x, y>>.  A conformation and an   *)
(* HP sequence are functions over 0..n-1, so that indices read as in the   *)
(* Python source.  The traces are sequences (append only).  Python's None  *)
(* is the empty function.  Every use of the random generator is a          *)
(* nondeterministic choice: a shuffle followed by "return the first        *)
(* success" can return any of the successes, a uniform draw is one of a    *)
(* few representative points of [0,1).                                     *)
(***************************************************************************)
EXTENDS Integers, Sequences, FiniteSets, TLC

VARIABLES
    algo,            \* "mc" | "remc": which driver runs; "moves" | "energy" in the function specifications
    hp_seq,          \* the HP sequence, 0..n-1 -> {"H","P"}
    steps_arg,       \* the steps argument as passed by the caller
    steps,           \* the effective step count, after clipping
    move_mode,       \* "vshd" | "pull" | "hybrid"
    rho,             \* probability (percent) of trying Pull first in hybrid mode
    n_replicas,      \* remc: number of replicas after clamping
    temps,           \* remc: temperature of each slot (scaled to integers)
    exchange_every,  \* remc: period of the exchange sweeps
    coords,          \* mc: the chain's conformation; function specifications: the input
    E,               \* mc: the chain's cached energy
    replicas_coords, \* remc: slot -> conformation
    replicas_E,      \* remc: slot -> cached energy
    best_coords,
    best_E,
    energies,
    best_energies,
    even,            \* remc: parity flag of the next exchange sweep
    t,               \* mc: the loop variable t; the number of iterations completed
    step,            \* remc: the loop variable step (0 before the first iteration)
    r,               \* remc: replica index of the move loop
    ex_i,            \* remc: the loop variable i of the exchange loop (first slot of the pair)
    proposal,        \* the value returned by attempt_move in the current step (None once the
                     \* step has used it: the local is dead until it is assigned again)
    pc,              \* position in the driver
    result           \* the returned structure, None until the driver returns

vars == <<algo, hp_seq, steps_arg, steps, move_mode, rho, n_replicas, temps,
          exchange_every, coords, E, replicas_coords, replicas_E, best_coords,
          best_E, energies, best_energies, even, t, step, r, ex_i, proposal, pc, result>>

-----------------------------------------------------------------------------
(* Bounds of the model *)

\* longest chain drawn as an input of the move engine and of the energy
MaxLen == 5
\* the step cap of the drivers: it stands for the 10_000 of
\* "steps = int(min(steps, 10_000))", scaled down so that a run reaches it
StepCap == 3
\* the longest replica-exchange run of two replicas on a chain of four residues
MaxRemcSteps == 2
\* the longest replica-exchange run of three replicas on a chain of four residues
MaxRemcSteps3 == 1

-----------------------------------------------------------------------------
(* Generic helpers *)

None == << >>

Abs(x) == IF x < 0 THEN 0 - x ELSE x

Size(c) == Cardinality(DOMAIN c)

Range(c) == {c[i] : i \in DOMAIN c}

SetMax(S) == CHOOSE m \in S : \A k \in S : k <= m

SetMin(S) == CHOOSE m \in S : \A k \in S : m <= k

-----------------------------------------------------------------------------
(* hp.py: lattice primitives *)

manhattan(p, q) == Abs(p[1] - q[1]) + Abs(p[2] - q[2])

\* the list [(x+1,y), (x-1,y), (x,y+1), (x,y-1)], in the order of the source
neighbours4(p) ==
    << <<p[1] + 1, p[2]>>, <<p[1] - 1, p[2]>>, <<p[1], p[2] + 1>>, <<p[1], p[2] - 1>> >>

neighbours4_set(p) == {neighbours4(p)[k] : k \in 1..4}

is_self_avoiding(c) ==
    /\ Cardinality(Range(c)) = Size(c)
    /\ \A i \in 0..(Size(c) - 2) : manhattan(c[i], c[i + 1]) = 1

initial_line(n) == [i \in 0..(n - 1) |-> <<i, 0>>]

-----------------------------------------------------------------------------
(* hp.py: energy *)

NoIndex == 0 - 1

\* a grid-indexed occupancy that drops the cells with a negative coordinate
occ_get_Grid(c, p) ==
    LET idx == {i \in DOMAIN c : c[i] = p /\ p[1] >= 0 /\ p[2] >= 0}
    IN IF idx = {} THEN NoIndex ELSE SetMax(idx)

\* occ = {coords[i]: i}: when a cell is held twice the later index wins
occ_get(c, p) ==
    LET idx == {i \in DOMAIN c : c[i] = p}
    IN IF idx = {} THEN NoIndex ELSE SetMax(idx)

\* the loop without the test abs(i - j) == 1
energy_hits_ChainNeighbours(c, s) ==
    {ik \in (DOMAIN c) \X (1..4) :
        /\ s[ik[1]] = "H"
        /\ LET j == occ_get(c, neighbours4(c[ik[1]])[ik[2]])
           IN /\ j # NoIndex
              /\ s[j] = "H"
              /\ j > ik[1]}

\* the contacts as the loop finds them: (i, k) with k the rank of a neighbour
\* cell of residue i that passes every test of the loop body
energy_hits(c, s) ==
    {ik \in (DOMAIN c) \X (1..4) :
        /\ s[ik[1]] = "H"
        /\ LET j == occ_get(c, neighbours4(c[ik[1]])[ik[2]])
           IN /\ j # NoIndex
              /\ s[j] = "H"
              /\ Abs(ik[1] - j) # 1
              /\ j > ik[1]}

energy_hp(c, s) == 0 - Cardinality(energy_hits(c, s))

-----------------------------------------------------------------------------
(* moves.py: VSHD moves.  Each operator is the set of conformations the    *)
(* corresponding loop can return: the candidates are tried in a shuffled   *)
(* order and the first one passing is_self_avoiding is returned, so any    *)
(* passing candidate can be the one returned, and None is returned only    *)
(* when no candidate of any kind passes.                                   *)

\* the first list comprehension without its filter "p not in occ"
end_candidates_Unfiltered(c, end_idx) ==
    LET n == Size(c)
        nb_of == IF end_idx = 0 THEN 1 ELSE n - 2
    IN {p \in neighbours4_set(c[nb_of]) : p # c[end_idx]}

\* the cells where end end_idx may be placed (the two list comprehensions)
end_candidates(c, end_idx) ==
    LET n == Size(c)
        nb_of == IF end_idx = 0 THEN 1 ELSE n - 2
        anchor == c[nb_of]
        occ == Range(c)
    IN {p \in neighbours4_set(anchor) :
            /\ (p \notin occ \/ p = c[end_idx])
            /\ p # c[end_idx]}

\* the candidates without the occupancy filter, each returned unchecked
end_moves_Unchecked(c) ==
    UNION {{[c EXCEPT ![e] = cand] :
                cand \in neighbours4_set(c[IF e = 0 THEN 1 ELSE Size(c) - 2]) \ {c[e]}} :
           e \in {0, Size(c) - 1}}

end_moves(c) ==
    {newc \in UNION {{[c EXCEPT ![e] = cand] : cand \in end_candidates(c, e)} :
                     e \in {0, Size(c) - 1}} :
        is_self_avoiding(newc)}

corner_candidates(c, i) ==
    LET im1 == c[i - 1]
        ip1 == c[i + 1]
        occ == Range(c)
    IN {cd \in neighbours4_set(im1) \cap neighbours4_set(ip1) :
            /\ (cd \notin occ \/ cd = c[i])
            /\ cd # im1 /\ cd # ip1 /\ cd # c[i]}

corner_moves(c) ==
    {newc \in UNION {{[c EXCEPT ![i] = cd] : cd \in corner_candidates(c, i)} :
                     i \in 1..(Size(c) - 2)} :
        is_self_avoiding(newc)}

\* the two target cells <<cand1, cand2>> of the flip of residues k+1, k+2,
\* or None where the loop body executes continue
crankshaft_targets(c, k) ==
    LET p0 == c[k]
        p1 == c[k + 1]
        p2 == c[k + 2]
        p3 == c[k + 3]
        dx == p3[1] - p0[1]
        dy == p3[2] - p0[2]
    IN IF ~(manhattan(p0, p1) = 1 /\ manhattan(p1, p2) = 1 /\ manhattan(p2, p3) = 1)
       THEN None
       ELSE IF manhattan(p0, p3) # 2
       THEN None
       ELSE IF <<Abs(dx), Abs(dy)>> = <<2, 0>>
       THEN LET midx == (p0[1] + p3[1]) \div 2
                y == p1[2]
                dy_flip == IF p1[2] = p0[2] THEN 1 ELSE 0 - 1
            IN << <<midx, y + dy_flip>>,
                  <<IF dx > 0 THEN midx + 1 ELSE midx - 1, y + dy_flip>> >>
       ELSE IF <<Abs(dx), Abs(dy)>> = <<0, 2>>
       THEN LET midy == (p0[2] + p3[2]) \div 2
                x == p1[1]
                dx_flip == IF p1[1] = p0[1] THEN 1 ELSE 0 - 1
            IN << <<x + dx_flip, midy>>,
                  <<x + dx_flip, IF dy > 0 THEN midy + 1 ELSE midy - 1>> >>
       ELSE None

\* the crankshaft with the U recognised by its ends being one lattice step
\* apart: residues k+1 and k+2 mirrored across the line through k and k+3
crankshaft_at_Flip(c, k) ==
    LET p0 == c[k]
        p1 == c[k + 1]
        p2 == c[k + 2]
        p3 == c[k + 3]
        cand1 == IF p0[2] = p3[2] THEN <<p1[1], 2 * p0[2] - p1[2]>>
                                  ELSE <<2 * p0[1] - p1[1], p1[2]>>
        cand2 == IF p0[2] = p3[2] THEN <<p2[1], 2 * p0[2] - p2[2]>>
                                  ELSE <<2 * p0[1] - p2[1], p2[2]>>
    IN IF ~(manhattan(p0, p1) = 1 /\ manhattan(p1, p2) = 1 /\ manhattan(p2, p3) = 1)
       THEN None
       ELSE IF manhattan(p0, p3) # 1
       THEN None
       ELSE IF cand1 \in Range(c) \/ cand2 \in Range(c)
       THEN None
       ELSE LET newc == [c EXCEPT ![k + 1] = cand1, ![k + 2] = cand2]
            IN IF is_self_avoiding(newc) THEN newc ELSE None

\* the crankshaft on residues k..k+3: the new conformation, or None
crankshaft_at(c, k) ==
    LET targets == crankshaft_targets(c, k)
        occ == Range(c)
    IN IF targets = None
       THEN None
       ELSE IF \A m \in 1..2 : targets[m] \notin occ \/ targets[m] \in {c[k + 1], c[k + 2]}
       THEN LET newc == [c EXCEPT ![k + 1] = targets[1], ![k + 2] = targets[2]]
            IN IF is_self_avoiding(newc) THEN newc ELSE None
       ELSE None

crankshaft_moves(c) == {crankshaft_at(c, k) : k \in 0..(Size(c) - 4)} \ {None}

vshd_moves(c) == end_moves(c) \cup corner_moves(c) \cup crankshaft_moves(c)

\* _attempt_vshd: the possible return values
attempt_vshd(c) == IF vshd_moves(c) = {} THEN {None} ELSE vshd_moves(c)

-----------------------------------------------------------------------------
(* moves.py: Pull moves *)

\* the two rotations of the bond (i, i+1): [(dy, -dx), (-dy, dx)]
pull_shifts(c, i) ==
    LET dx == c[i + 1][1] - c[i][1]
        dy == c[i + 1][2] - c[i][2]
    IN IF Abs(dx) + Abs(dy) # 1
       THEN {}
       ELSE {<<dy, 0 - dx>>, <<0 - dy, dx>>}

\* the propagation taking the old position of index j + 1 for index j
RECURSIVE pull_propagate_Next(_, _, _, _)
pull_propagate_Next(old, newc, occ, j) ==
    IF j < 0
    THEN [valid |-> TRUE, newc |-> newc]
    ELSE LET target == old[j + 1]
         IN IF target \in occ /\ target # newc[j]
            THEN [valid |-> FALSE, newc |-> newc]
            ELSE pull_propagate_Next(old,
                                     [newc EXCEPT ![j] = target],
                                     (occ \ {newc[j]}) \cup {target},
                                     j - 1)

\* the while loop of the propagation, from index j down to 0, on the loop's
\* state (newc, occ); the result is [valid, newc]
RECURSIVE pull_propagate(_, _, _, _)
pull_propagate(old, newc, occ, j) ==
    IF j < 0
    THEN [valid |-> TRUE, newc |-> newc]
    ELSE LET target == old[j + 2]
         IN IF target \in occ /\ target # newc[j]
            THEN [valid |-> FALSE, newc |-> newc]
            ELSE pull_propagate(old,
                                [newc EXCEPT ![j] = target],
                                (occ \ {newc[j]}) \cup {target},
                                j - 1)

\* the body of the loop over the shifts for pivot i and shift sh: the
\* conformation returned, or None where the body falls through to the next
\* configuration
pull_at(c, i, sh) ==
    LET pi == c[i]
        pip1 == c[i + 1]
        L == <<pip1[1] + sh[1], pip1[2] + sh[2]>>
        C == <<pi[1] + sh[1], pi[2] + sh[2]>>
        occ0 == Range(c)
    IN IF L \in occ0 /\ L # pi
       THEN None
       ELSE IF i - 1 >= 0 /\ C = c[i - 1]
       THEN LET newc == [c EXCEPT ![i] = L]
            IN IF is_self_avoiding(newc) THEN newc ELSE None
       ELSE IF C \in occ0
       THEN None
       ELSE LET newc == IF i - 1 >= 0
                        THEN [c EXCEPT ![i] = L, ![i - 1] = C]
                        ELSE [c EXCEPT ![i] = L]
                occ == IF i - 1 >= 0
                       THEN (((occ0 \cup {L}) \ {pi}) \cup {C}) \ {c[i - 1]}
                       ELSE (occ0 \cup {L}) \ {pi}
            IN IF i - 2 >= 0 /\ manhattan(newc[i - 2], newc[i - 1]) = 1
               THEN IF is_self_avoiding(newc) THEN newc ELSE None
               ELSE LET after == pull_propagate(c, newc, occ, i - 2)
                    IN IF after.valid /\ is_self_avoiding(after.newc)
                       THEN after.newc
                       ELSE None

\* Pull moves toward both ends: those of the chain and those of the chain read
\* from its other end
pull_moves_BothEnds(c) ==
    IF Size(c) < 3
    THEN {}
    ELSE LET n == Size(c)
             rev(d) == [k \in DOMAIN d |-> d[n - 1 - k]]
             pulls(d) == UNION {{pull_at(d, i, sh) : sh \in pull_shifts(d, i)} :
                                i \in 1..(n - 2)} \ {None}
         IN pulls(c) \cup {rev(d) : d \in pulls(rev(c))}

pull_moves(c) ==
    IF Size(c) < 3
    THEN {}
    ELSE UNION {{pull_at(c, i, sh) : sh \in pull_shifts(c, i)} :
                i \in 1..(Size(c) - 2)} \ {None}

\* _attempt_pull: the possible return values
attempt_pull(c) == IF pull_moves(c) = {} THEN {None} ELSE pull_moves(c)

-----------------------------------------------------------------------------
(* moves.py: mode selection *)

Modes == {"vshd", "pull", "hybrid"}

\* representative values of rng.random(), in percent of [0, 1)
UDraws == {0, 50, 99}

\* the first kind only, without the second attempt
hybrid_moves_FirstOnly(c, pull_first) ==
    IF pull_first THEN attempt_pull(c) ELSE attempt_vshd(c)

\* hybrid mode once the draw is made: the first kind, then the other kind
hybrid_moves(c, pull_first) ==
    IF pull_first
    THEN IF pull_moves(c) # {} THEN pull_moves(c) ELSE attempt_vshd(c)
    ELSE IF vshd_moves(c) # {} THEN vshd_moves(c) ELSE attempt_pull(c)

\* attempt_move: the possible return values, rh being config.rho in percent
attempt_move(c, mode, rh) ==
    IF mode = "vshd"
    THEN attempt_vshd(c)
    ELSE IF mode = "pull"
    THEN attempt_pull(c)
    ELSE UNION {hybrid_moves(c, u < rh) : u \in UDraws}

-----------------------------------------------------------------------------
(* Inputs of the function specifications: every conformation (connected,   *)
(* self-avoiding walk) of 2..MaxLen residues that starts at the origin.    *)

Dirs == {<<1, 0>>, <<0 - 1, 0>>, <<0, 1>>, <<0, 0 - 1>>}

\* the walk from the origin whose i-th bond is ds[i]
WalkOf(ds) ==
    LET n == Size(ds) + 1
        pos[i \in 0..(n - 1)] ==
            IF i = 0 THEN <<0, 0>>
            ELSE <<pos[i - 1][1] + ds[i][1], pos[i - 1][2] + ds[i][2]>>
    IN pos

Conformations(n) == {c \in {WalkOf(ds) : ds \in [1..(n - 1) -> Dirs]} : is_self_avoiding(c)}

AllConformations == UNION {Conformations(n) : n \in 2..MaxLen}

HPStrings(n) == [0..(n - 1) -> {"H", "P"}]

\* the vectors by which the energy specification translates a conformation
Shifts == {<<1, 0>>, <<0, 0 - 1>>, <<0 - 2, 3>>, <<0 - 1, 0 - 1>>}

Translate(c, v) == [i \in DOMAIN c |-> <<c[i][1] + v[1], c[i][2] + v[2]>>]

\* values of config.rho, in percent
Rhos == {0, 50, 100}

-----------------------------------------------------------------------------
(* SpecMoves: attempt_move applied once to every conformation and mode.    *)

driverIdle ==
    /\ steps_arg = 0 /\ steps = 0
    /\ n_replicas = 0 /\ temps = << >> /\ exchange_every = 0
    /\ replicas_coords = << >> /\ replicas_E = << >>
    /\ best_coords = None /\ best_E = 0
    /\ energies = << >> /\ best_energies = << >>
    /\ even = TRUE /\ t = 0 /\ step = 0 /\ r = 0 /\ ex_i = 0
    /\ result = None

driverVars == <<steps_arg, steps, n_replicas, temps, exchange_every, replicas_coords,
                replicas_E, best_coords, best_E, energies, best_energies, even, t, step,
                r, ex_i, result>>

InitMoves ==
    /\ algo = "moves"
    /\ coords \in AllConformations
    /\ hp_seq = [i \in DOMAIN coords |-> "H"]
    /\ move_mode \in Modes
    /\ rho \in (IF move_mode = "hybrid" THEN Rhos ELSE {50})
    /\ E = 0
    /\ proposal = None
    /\ pc = "call"
    /\ driverIdle

\* proposal = moves.attempt_move(coords, mode=move_mode)
MoveCall ==
    /\ algo = "moves" /\ pc = "call"
    /\ proposal' \in attempt_move(coords, move_mode, rho)
    /\ pc' = "returned"
    /\ UNCHANGED <<algo, hp_seq, move_mode, rho, coords, E>>
    /\ UNCHANGED driverVars

NextMoves == MoveCall

SpecMoves == InitMoves /\ [][NextMoves]_vars

-----------------------------------------------------------------------------
(* SpecEnergy: energy_hp applied to every conformation and HP sequence,    *)
(* then to a translated copy of the conformation.                          *)

InitEnergy ==
    /\ algo = "energy"
    /\ coords \in AllConformations
    /\ hp_seq \in HPStrings(Size(coords))
    /\ move_mode = "vshd" /\ rho = 50
    /\ E = 0
    /\ proposal = None
    /\ pc = "call"
    /\ driverIdle

\* E = energy_hp(coords, hp_seq)
EnergyCall ==
    /\ algo = "energy" /\ pc = "call"
    /\ E' = energy_hp(coords, hp_seq)
    /\ pc' = "returned"
    /\ UNCHANGED <<algo, hp_seq, move_mode, rho, coords, proposal>>
    /\ UNCHANGED driverVars

\* E = energy_hp([(x + a, y + b) for (x, y) in coords], hp_seq)
EnergyTranslated ==
    /\ algo = "energy" /\ pc = "returned"
    /\ \E v \in Shifts :
         /\ coords' = Translate(coords, v)
         /\ E' = energy_hp(coords', hp_seq)
    /\ pc' = "translated"
    /\ UNCHANGED <<algo, hp_seq, move_mode, rho, proposal>>
    /\ UNCHANGED driverVars

NextEnergy == EnergyCall \/ EnergyTranslated

SpecEnergy == InitEnergy /\ [][NextEnergy]_vars

-----------------------------------------------------------------------------
(* Properties of the move engine and of the energy (SpecMoves, SpecEnergy) *)

\* The invariants of a conformation of n residues, written out on the
\* coordinates: indices 0..n-1, consecutive residues one lattice step apart,
\* all cells distinct.
IsConformation(c, n) ==
    /\ DOMAIN c = 0..(n - 1)
    /\ \A i \in 0..(n - 2) :
         \/ (c[i][1] = c[i + 1][1] /\ (c[i][2] - c[i + 1][2]) \in {0 - 1, 1})
         \/ (c[i][2] = c[i + 1][2] /\ (c[i][1] - c[i + 1][1]) \in {0 - 1, 1})
    /\ \A i, j \in 0..(n - 1) : i # j => c[i] # c[j]

\* C1: for every conformation of n >= 2 residues and every mode, attempt_move
\* returns None or a conformation of the same length n that is again
\* connected and self-avoiding.
C1_AttemptMovePreservesInvariants ==
    (algo = "moves" /\ pc = "returned") =>
        (proposal = None \/ IsConformation(proposal, Size(coords)))

\* C1 witness: hybrid mode returned a new conformation of a 4-residue chain
C1_Witness ==
    /\ algo = "moves" /\ pc = "returned"
    /\ move_mode = "hybrid" /\ Size(coords) = 4
    /\ IsConformation(coords, 4)
    /\ proposal # None /\ proposal # coords

\* the H-H contacts of the definition: index pairs (i, j), j > i + 1, both H,
\* one lattice step apart
HHContacts(c, s) ==
    {ij \in (DOMAIN c) \X (DOMAIN c) :
        /\ ij[2] > ij[1] + 1
        /\ s[ij[1]] = "H" /\ s[ij[2]] = "H"
        /\ Abs(c[ij[1]][1] - c[ij[2]][1]) + Abs(c[ij[1]][2] - c[ij[2]][2]) = 1}

UShape == [i \in 0..3 |-> << <<0, 0>>, <<1, 0>>, <<1, 1>>, <<0, 1>> >>[i + 1]]

\* C7: on a self-avoiding conformation energy_hp is minus the number of H-H
\* contacts (each counted once, chain neighbours never counted); it is <= 0,
\* it is 0 on the straight line and -1 on the U-shape with S = HHHH.
C7_EnergyCountsContacts ==
    (algo = "energy" /\ pc = "returned") =>
        /\ E = 0 - Cardinality(HHContacts(coords, hp_seq))
        /\ E <= 0
        /\ (coords = initial_line(Size(coords)) => E = 0)
        /\ ((coords = UShape /\ hp_seq = [i \in 0..3 |-> "H"]) => E = 0 - 1)

\* C7 witness: the energy of the U-shape with S = HHHH has been computed
C7_Witness ==
    /\ algo = "energy" /\ pc = "returned"
    /\ coords = UShape /\ hp_seq = [i \in 0..3 |-> "H"]
    /\ E = 0 - 1

\* C8: energy_hp is translation-invariant: the energy of the translated
\* conformation equals the energy of the conformation.
C8_EnergyTranslationInvariant ==
    [][(algo = "energy" /\ pc = "returned" /\ pc' = "translated") => E' = E]_vars

\* C8 witness: a conformation with a contact has been translated by (-2, 3)
C8_Witness ==
    /\ algo = "energy" /\ pc = "translated"
    /\ coords[0] = <<0 - 2, 3>>
    /\ E = 0 - 1

\* residues k..k+3 form a U: three bonds, the first and the fourth residue
\* one lattice step apart (the four cells are a unit square)
IsU(c, k) ==
    /\ (k + 3) \in DOMAIN c
    /\ manhattan(c[k], c[k + 1]) = 1
    /\ manhattan(c[k + 1], c[k + 2]) = 1
    /\ manhattan(c[k + 2], c[k + 3]) = 1
    /\ manhattan(c[k], c[k + 3]) = 1

\* the mirror image of cell p across the line through the cells a and b
Mirror(p, a, b) ==
    IF a[2] = b[2] THEN <<p[1], 2 * a[2] - p[2]>> ELSE <<2 * a[1] - p[1], p[2]>>

\* the cells that the 180 degree flip of the U needs are free
FlipFree(c, k) ==
    /\ Mirror(c[k + 1], c[k], c[k + 3]) \notin Range(c)
    /\ Mirror(c[k + 2], c[k], c[k + 3]) \notin Range(c)

crankshaft_twice(c, k) ==
    IF crankshaft_at(c, k) = None THEN None ELSE crankshaft_at(crankshaft_at(c, k), k)

CrankshaftNeverApplies ==
    algo = "moves" => crankshaft_moves(coords) = {}

\* C10: Pull moves are reversible: from every conformation the Pull move can
\* propose, the Pull move can propose the conformation it came from.
C10_PullReversible ==
    (algo = "moves" /\ pc = "returned" /\ move_mode = "pull" /\ proposal # None) =>
        coords \in pull_moves(proposal)

-----------------------------------------------------------------------------
(* monte_carlo.py, remc.py: the acceptance rules *)

\* Python's min of two numbers
Min2(a, b) == IF a <= b THEN a ELSE b

\* delta_E <= 0 mistyped as delta_E < 0: an equal energy goes to the draw
metropolis_accept_Strict(delta_E, T) ==
    IF delta_E < 0
    THEN {TRUE}
    ELSE IF T > 0 THEN {TRUE, FALSE} ELSE {FALSE}

\* metropolis_accept(delta_E, T, rng): the possible return values.  For
\* delta_E > 0 the draw rng.random() is compared with exp(-delta_E / max(T,
\* 1e-12)), which lies strictly between 0 and 1 for T > 0 (both outcomes) and
\* is 0.0 for T <= 0 (never accepted).
metropolis_accept(delta_E, T) ==
    IF delta_E <= 0
    THEN {TRUE}
    ELSE IF T > 0 THEN {TRUE, FALSE} ELSE {FALSE}

\* delta written with the two inverse temperatures in the other order
exchange_delta_sign_Reversed(Ti, Tj, Ei, Ej) ==
    LET d == (Tj - Ti) * (Ei - Ej)
    IN IF d > 0 THEN 1 ELSE IF d < 0 THEN 0 - 1 ELSE 0

\* the sign of delta = (1.0 / Tj - 1.0 / Ti) * (Ei - Ej) for positive
\* temperatures: that of (Ti - Tj) * (Ei - Ej)
exchange_delta_sign(Ti, Tj, Ei, Ej) ==
    LET d == (Ti - Tj) * (Ei - Ej)
    IN IF d > 0 THEN 1 ELSE IF d < 0 THEN 0 - 1 ELSE 0

\* the possible values of rng.random() < acc, with acc = 1.0 if delta >= 0
\* else exp(delta), which lies strictly between 0 and 1
exchange_accept(Ti, Tj, Ei, Ej) ==
    IF exchange_delta_sign(Ti, Tj, Ei, Ej) >= 0 THEN {TRUE} ELSE {TRUE, FALSE}

\* the best record never updated after construction
best_update_Never(E_new, c_new, bE, bc) == <<bE, bc>>

\* best_E updated without the copy of the conformation
best_update_EnergyOnly(E_new, c_new, bE, bc) ==
    IF E_new < bE THEN <<E_new, bc>> ELSE <<bE, bc>>

\* the record update "if E < best_E": the new (best_E, best_coords)
best_update(E_new, c_new, bE, bc) ==
    IF E_new < bE THEN <<E_new, c_new>> ELSE <<bE, bc>>


-----------------------------------------------------------------------------
(* The runs: parameters of run_mc and run_remc *)

SeqOf(str) == [k \in 0..(Len(str) - 1) |-> str[k + 1]]

\* the HP sequences of the runs
RunSeqs == {SeqOf(<<"H", "H">>), SeqOf(<<"H", "P", "H">>), SeqOf(<<"H", "H", "H", "H">>)}

\* the steps arguments: below, at and above the cap
StepArgs == (0 - 1)..(StepCap + 1)

\* run_mc's default temperature=1.0
temperature == 1

\* (tmin, tmax) of the replica-exchange runs: tmin < tmax, tmin = tmax and
\* tmin > tmax
TempRanges == {<<1, 2>>, <<1, 1>>, <<2, 1>>}

\* rho of the runs, in percent: inside [0, 1], below 0 and above 1
RunRhos == Rhos \cup {0 - 50, 150}

\* np.linspace(tmin, tmax, n), every temperature multiplied by n - 1 so that
\* it is an integer: slot k holds (n - 1) * (tmin + k * (tmax - tmin) / (n - 1))
linspace_scaled(tmin, tmax, n) == [k \in 0..(n - 1) |-> (n - 1) * tmin + k * (tmax - tmin)]

paramVars == <<algo, hp_seq, steps_arg, steps, move_mode, rho, n_replicas, temps,
               exchange_every>>

mcVars == <<coords, E, t>>

remcVars == <<replicas_coords, replicas_E, even, step, r, ex_i>>

bestVars == <<best_coords, best_E>>

traceVars == <<energies, best_energies>>

-----------------------------------------------------------------------------
(* monte_carlo.py: run_mc *)

\* the state when the for loop is first reached
InitMC ==
    /\ algo = "mc"
    /\ hp_seq \in RunSeqs
    /\ steps_arg \in StepArgs
    /\ steps = Min2(steps_arg, StepCap)
    /\ move_mode \in Modes
    /\ rho \in (IF move_mode = "hybrid" THEN RunRhos ELSE {50})
    /\ n_replicas = 0 /\ temps = << >> /\ exchange_every = 0
    /\ coords = initial_line(Size(hp_seq))
    /\ E = energy_hp(coords, hp_seq)
    /\ best_coords = coords
    /\ best_E = E
    /\ energies = << >>
    /\ best_energies = << >>
    /\ t = 0
    /\ replicas_coords = << >> /\ replicas_E = << >>
    /\ even = TRUE /\ step = 0 /\ r = 0 /\ ex_i = 0
    /\ proposal = None
    /\ pc = "loop"
    /\ result = None

\* the loop written as range(steps + 1): one iteration too many
MCPropose_OneMore ==
    /\ algo = "mc" /\ pc = "loop" /\ t < steps + 1
    /\ proposal' \in attempt_move(coords, move_mode, rho)
    /\ pc' = "decide"
    /\ UNCHANGED <<paramVars, mcVars, remcVars, bestVars, traceVars, result>>

\* proposal = moves.attempt_move(coords, mode=move_mode)
MCPropose ==
    /\ algo = "mc" /\ pc = "loop" /\ t < steps
    /\ proposal' \in attempt_move(coords, move_mode, rho)
    /\ pc' = "decide"
    /\ UNCHANGED <<paramVars, mcVars, remcVars, bestVars, traceVars, result>>

\* "continue" taken before the traces are appended to
MCNoProposal_NoTrace ==
    /\ algo = "mc" /\ pc = "decide" /\ proposal = None
    /\ t' = t + 1
    /\ proposal' = None
    /\ pc' = "loop"
    /\ UNCHANGED <<paramVars, coords, E, remcVars, bestVars, traceVars, result>>

\* if proposal is None: trace and continue
MCNoProposal ==
    /\ algo = "mc" /\ pc = "decide" /\ proposal = None
    /\ energies' = Append(energies, E)
    /\ best_energies' = Append(best_energies, best_E)
    /\ t' = t + 1
    /\ proposal' = None
    /\ pc' = "loop"
    /\ UNCHANGED <<paramVars, coords, E, remcVars, bestVars, result>>

\* metropolis_accept returned True
MCAccept ==
    /\ algo = "mc" /\ pc = "decide" /\ proposal # None
    /\ LET E_new == energy_hp(proposal, hp_seq)
           best == best_update(E_new, proposal, best_E, best_coords)
       IN /\ TRUE \in metropolis_accept(E_new - E, temperature)
          /\ coords' = proposal
          /\ E' = E_new
          /\ best_E' = best[1]
          /\ best_coords' = best[2]
          /\ energies' = Append(energies, E_new)
          /\ best_energies' = Append(best_energies, best[1])
    /\ t' = t + 1
    /\ proposal' = None
    /\ pc' = "loop"
    /\ UNCHANGED <<paramVars, remcVars, result>>

\* E assigned before the test: a rejected proposal leaves its energy behind
MCReject_EnergyTaken ==
    /\ algo = "mc" /\ pc = "decide" /\ proposal # None
    /\ FALSE \in metropolis_accept(energy_hp(proposal, hp_seq) - E, temperature)
    /\ E' = energy_hp(proposal, hp_seq)
    /\ energies' = Append(energies, E')
    /\ best_energies' = Append(best_energies, best_E)
    /\ t' = t + 1
    /\ proposal' = None
    /\ pc' = "loop"
    /\ UNCHANGED <<paramVars, coords, remcVars, bestVars, result>>

\* metropolis_accept returned False
MCReject ==
    /\ algo = "mc" /\ pc = "decide" /\ proposal # None
    /\ FALSE \in metropolis_accept(energy_hp(proposal, hp_seq) - E, temperature)
    /\ energies' = Append(energies, E)
    /\ best_energies' = Append(best_energies, best_E)
    /\ t' = t + 1
    /\ proposal' = None
    /\ pc' = "loop"
    /\ UNCHANGED <<paramVars, coords, E, remcVars, bestVars, result>>

\* range(steps) is exhausted: return
MCReturn ==
    /\ algo = "mc" /\ pc = "loop" /\ t >= steps
    /\ result' = [final_coords |-> coords,
                  best_coords |-> best_coords,
                  energies |-> energies,
                  best_energies |-> best_energies,
                  best_energy |-> best_E]
    /\ pc' = "done"
    /\ UNCHANGED <<paramVars, mcVars, remcVars, bestVars, traceVars, proposal>>

-----------------------------------------------------------------------------
(* remc.py: run_remc *)

\* the runs of run_remc that are explored: runs of any length on the chain of
\* two residues in pull mode (where no move exists), and short runs on the
\* chain of four residues: two replicas in every mode, three replicas in
\* pull mode, and tmin > tmax with two replicas in pull mode
RemcRun(s, st, mode, nrep, ee, tr) ==
    \/ (Size(s) = 2 /\ mode = "pull")
    \/ (Size(s) = 4 /\ nrep = 2 /\ mode = "pull" /\ st <= MaxRemcSteps /\ tr[1] <= tr[2])
    \/ (Size(s) = 4 /\ nrep = 2 /\ mode # "pull" /\ st <= 1 /\ tr[1] <= tr[2])
    \/ (Size(s) = 4 /\ nrep = 3 /\ mode = "pull" /\ st <= MaxRemcSteps3
          /\ ee = 1 /\ tr = <<1, 2>>)
    \/ (Size(s) = 4 /\ nrep = 2 /\ mode = "pull" /\ st <= 1 /\ ee = 1 /\ tr = <<2, 1>>)

\* the state when the for loop is first reached
InitREMC ==
    /\ algo = "remc"
    /\ hp_seq \in RunSeqs
    /\ steps_arg \in StepArgs
    /\ steps = Min2(steps_arg, StepCap)
    /\ move_mode \in Modes
    /\ rho = 50
    /\ \E n_replicas_arg \in 1..4 :
         n_replicas = (IF n_replicas_arg >= 2 THEN n_replicas_arg ELSE 2)
    /\ exchange_every \in 1..2
    /\ \E tr \in TempRanges :
         /\ RemcRun(hp_seq, steps_arg, move_mode, n_replicas, exchange_every, tr)
         /\ temps = linspace_scaled(tr[1], tr[2], n_replicas)
    /\ replicas_coords = [k \in 0..(n_replicas - 1) |-> initial_line(Size(hp_seq))]
    /\ replicas_E = [k \in 0..(n_replicas - 1) |-> energy_hp(initial_line(Size(hp_seq)), hp_seq)]
    /\ best_E = energy_hp(initial_line(Size(hp_seq)), hp_seq)
    /\ best_coords = initial_line(Size(hp_seq))
    /\ energies = << >>
    /\ best_energies = << >>
    /\ even = TRUE
    /\ step = 0 /\ r = 0 /\ ex_i = 0
    /\ coords = None /\ E = 0 /\ t = 0
    /\ proposal = None
    /\ pc = "loop"
    /\ result = None

\* for step in range(1, steps + 1): the next iteration begins
REMCStep ==
    /\ algo = "remc" /\ pc = "loop" /\ step < steps
    /\ step' = step + 1
    /\ r' = 0
    /\ pc' = "move"
    /\ UNCHANGED <<paramVars, mcVars, replicas_coords, replicas_E, even, ex_i, bestVars,
                   traceVars, proposal, result>>

\* prop = moves.attempt_move(replicas_coords[r], mode=move_mode)
REMCPropose ==
    /\ algo = "remc" /\ pc = "move" /\ r < n_replicas
    /\ proposal' \in attempt_move(replicas_coords[r], move_mode, rho)
    /\ pc' = "decide"
    /\ UNCHANGED <<paramVars, mcVars, remcVars, bestVars, traceVars, result>>

\* if prop is None: continue
REMCNoProposal ==
    /\ algo = "remc" /\ pc = "decide" /\ proposal = None
    /\ r' = r + 1
    /\ pc' = "move"
    /\ UNCHANGED <<paramVars, mcVars, replicas_coords, replicas_E, even, step, ex_i,
                   bestVars, traceVars, proposal, result>>

\* metropolis_accept returned True
REMCAccept ==
    /\ algo = "remc" /\ pc = "decide" /\ proposal # None
    /\ LET E_new == energy_hp(proposal, hp_seq)
           best == best_update(E_new, proposal, best_E, best_coords)
       IN /\ TRUE \in metropolis_accept(E_new - replicas_E[r], temps[r])
          /\ replicas_coords' = [replicas_coords EXCEPT ![r] = proposal]
          /\ replicas_E' = [replicas_E EXCEPT ![r] = E_new]
          /\ best_E' = best[1]
          /\ best_coords' = best[2]
    /\ r' = r + 1
    /\ proposal' = None
    /\ pc' = "move"
    /\ UNCHANGED <<paramVars, mcVars, even, step, ex_i, traceVars, result>>

\* metropolis_accept returned False
REMCReject ==
    /\ algo = "remc" /\ pc = "decide" /\ proposal # None
    /\ FALSE \in metropolis_accept(energy_hp(proposal, hp_seq) - replicas_E[r], temps[r])
    /\ r' = r + 1
    /\ proposal' = None
    /\ pc' = "move"
    /\ UNCHANGED <<paramVars, mcVars, replicas_coords, replicas_E, even, step, ex_i,
                   bestVars, traceVars, result>>

\* the replica loop is over: append to the traces, then test
\* step % exchange_every == 0
REMCTrace ==
    /\ algo = "remc" /\ pc = "move" /\ r >= n_replicas
    /\ energies' = Append(energies, replicas_E[0])
    /\ best_energies' = Append(best_energies, best_E)
    /\ IF step % exchange_every = 0
       THEN /\ ex_i' = (IF even THEN 0 ELSE 1)
            /\ pc' = "exchange"
       ELSE /\ ex_i' = ex_i
            /\ pc' = "loop"
    /\ UNCHANGED <<paramVars, mcVars, replicas_coords, replicas_E, even, step, r, bestVars,
                   proposal, result>>

\* the states of slots a and b swapped
swap_slots(f, a, b) == [f EXCEPT ![a] = f[b], ![b] = f[a]]

\* the conformations swapped, the cached energies left in their slots
REMCSwap_CoordsOnly ==
    /\ algo = "remc" /\ pc = "exchange" /\ ex_i < n_replicas - 1
    /\ TRUE \in exchange_accept(temps[ex_i], temps[ex_i + 1],
                                replicas_E[ex_i], replicas_E[ex_i + 1])
    /\ replicas_coords' = swap_slots(replicas_coords, ex_i, ex_i + 1)
    /\ ex_i' = ex_i + 2
    /\ UNCHANGED <<paramVars, mcVars, replicas_E, even, step, r, bestVars, traceVars,
                   proposal, pc, result>>

\* the trace entry of the step rewritten after the swap, as if the traces were
\* appended to after the exchanges
REMCSwap_Retrace ==
    /\ algo = "remc" /\ pc = "exchange" /\ ex_i < n_replicas - 1
    /\ TRUE \in exchange_accept(temps[ex_i], temps[ex_i + 1],
                                replicas_E[ex_i], replicas_E[ex_i + 1])
    /\ replicas_coords' = swap_slots(replicas_coords, ex_i, ex_i + 1)
    /\ replicas_E' = swap_slots(replicas_E, ex_i, ex_i + 1)
    /\ energies' = [energies EXCEPT ![step] = replicas_E'[0]]
    /\ ex_i' = ex_i + 2
    /\ UNCHANGED <<paramVars, mcVars, even, step, r, bestVars, best_energies, proposal, pc,
                   result>>

\* rng.random() < acc: swap the states of slots i and j = i + 1
REMCSwap ==
    /\ algo = "remc" /\ pc = "exchange" /\ ex_i < n_replicas - 1
    /\ LET j == ex_i + 1
       IN /\ TRUE \in exchange_accept(temps[ex_i], temps[j], replicas_E[ex_i], replicas_E[j])
          /\ replicas_coords' = swap_slots(replicas_coords, ex_i, j)
          /\ replicas_E' = swap_slots(replicas_E, ex_i, j)
    /\ ex_i' = ex_i + 2
    /\ UNCHANGED <<paramVars, mcVars, even, step, r, bestVars, traceVars, proposal, pc,
                   result>>

\* not (rng.random() < acc)
REMCNoSwap ==
    /\ algo = "remc" /\ pc = "exchange" /\ ex_i < n_replicas - 1
    /\ FALSE \in exchange_accept(temps[ex_i], temps[ex_i + 1],
                                 replicas_E[ex_i], replicas_E[ex_i + 1])
    /\ ex_i' = ex_i + 2
    /\ UNCHANGED <<paramVars, mcVars, replicas_coords, replicas_E, even, step, r, bestVars,
                   traceVars, proposal, pc, result>>

\* the sweep ends without "even = not even"
REMCSweepEnd_NoFlip ==
    /\ algo = "remc" /\ pc = "exchange" /\ ex_i >= n_replicas - 1
    /\ pc' = "loop"
    /\ UNCHANGED <<paramVars, mcVars, remcVars, bestVars, traceVars, proposal, result>>

\* range(start, n_replicas - 1, 2) is exhausted: even = not even
REMCSweepEnd ==
    /\ algo = "remc" /\ pc = "exchange" /\ ex_i >= n_replicas - 1
    /\ even' = ~even
    /\ pc' = "loop"
    /\ UNCHANGED <<paramVars, mcVars, replicas_coords, replicas_E, step, r, ex_i, bestVars,
                   traceVars, proposal, result>>

\* the return without the test "if best_E < final_E"
REMCReturn_ColdOnly ==
    /\ algo = "remc" /\ pc = "loop" /\ step >= steps
    /\ result' = [final_coords |-> replicas_coords[0],
                  best_coords |-> best_coords,
                  energies |-> energies,
                  best_energies |-> best_energies,
                  best_energy |-> best_E]
    /\ pc' = "done"
    /\ UNCHANGED <<paramVars, mcVars, remcVars, bestVars, traceVars, proposal>>

\* range(1, steps + 1) is exhausted: choose final_coords and return
REMCReturn ==
    /\ algo = "remc" /\ pc = "loop" /\ step >= steps
    /\ LET final_E == replicas_E[0]
           final_coords == IF best_E < final_E THEN best_coords ELSE replicas_coords[0]
       IN result' = [final_coords |-> final_coords,
                     best_coords |-> best_coords,
                     energies |-> energies,
                     best_energies |-> best_energies,
                     best_energy |-> best_E]
    /\ pc' = "done"
    /\ UNCHANGED <<paramVars, mcVars, remcVars, bestVars, traceVars, proposal>>

-----------------------------------------------------------------------------
(* Spec: one run of run_mc or of run_remc *)

Init == InitMC \/ InitREMC

Next ==
    \/ MCPropose \/ MCNoProposal \/ MCAccept \/ MCReject \/ MCReturn
    \/ REMCStep \/ REMCPropose \/ REMCNoProposal \/ REMCAccept \/ REMCReject
    \/ REMCTrace \/ REMCSwap \/ REMCNoSwap \/ REMCSweepEnd \/ REMCReturn

Spec == Init /\ [][Next]_vars

-----------------------------------------------------------------------------
(* Properties of the drivers (Spec) *)

\* the energies currently held: by the chain (mc), by every replica (remc)
CurrentEnergies ==
    IF algo = "mc" THEN {E} ELSE {replicas_E[k] : k \in 0..(n_replicas - 1)}

\* the conformations currently held
CurrentConformations ==
    IF algo = "mc" THEN {coords} ELSE {replicas_coords[k] : k \in 0..(n_replicas - 1)}

\* C2: in every reachable state of run_mc and run_remc the conformation of
\* the chain, of every replica, and the best conformation are connected,
\* self-avoiding and of length len(S); the returned final_coords and
\* best_coords satisfy is_self_avoiding.
C2_DriverConformationsValid ==
    /\ \A c \in CurrentConformations \cup {best_coords} : IsConformation(c, Size(hp_seq))
    /\ pc = "done" =>
         /\ IsConformation(result.final_coords, Size(hp_seq))
         /\ IsConformation(result.best_coords, Size(hp_seq))
         /\ is_self_avoiding(result.final_coords)
         /\ is_self_avoiding(result.best_coords)

\* C2 witness: run_remc returned after two steps, with folded replicas that
\* differ from each other
C2_Witness ==
    /\ algo = "remc" /\ pc = "done"
    /\ Len(result.energies) = 2
    /\ replicas_coords[0] # replicas_coords[1]
    /\ replicas_coords[0] # initial_line(4)
    /\ result.best_energy = 0 - 1

\* min(steps, cap) written out
EffectiveSteps == IF steps_arg <= StepCap THEN steps_arg ELSE StepCap

\* the number of steps that have appended to the traces
StepsDone ==
    IF algo = "mc" THEN t
    ELSE IF pc \in {"move", "decide"} THEN step - 1 ELSE step

C3_Counts ==
    steps_arg >= 0 =>
        /\ Len(energies) = StepsDone
        /\ Len(best_energies) = StepsDone
        /\ StepsDone <= EffectiveSteps
        /\ pc = "done" =>
             /\ StepsDone = EffectiveSteps
             /\ Len(result.energies) = EffectiveSteps
             /\ Len(result.best_energies) = EffectiveSteps

\* a measure of what is left of the run: 0 once the driver has returned
Rank ==
    LET S == IF steps < 0 THEN 0 ELSE steps
        K == 3 * n_replicas + 3
    IN IF pc = "done" THEN 0
       ELSE IF algo = "mc"
       THEN 2 * (S - t) + (IF pc = "loop" THEN 1 ELSE 0) + 1
       ELSE (S - step) * K + 1 +
            (IF pc = "move" THEN 2 * (n_replicas - r) + n_replicas + 2
             ELSE IF pc = "decide" THEN 2 * (n_replicas - r) + n_replicas + 1
             ELSE IF pc = "exchange" THEN n_replicas + 1 - ex_i
             ELSE 0)

\* C3: run_mc and run_remc terminate after exactly min(steps, cap) steps (for
\* steps >= 0): until the driver has returned a next step exists and every
\* step decreases the measure Rank; every step, with or without a proposal,
\* accepted or rejected, appends exactly one entry to each trace, so both
\* returned traces have length min(steps, cap).
C3_StepsAndTraceLengths ==
    /\ [](C3_Counts /\ Rank >= 0 /\ (pc # "done" => ENABLED Next))
    /\ [][Rank' < Rank]_vars

\* C3 witness: a run asked for more steps than the cap has returned
C3_Witness ==
    /\ pc = "done" /\ steps_arg = StepCap + 1
    /\ Len(result.energies) = StepCap
    /\ Len(result.best_energies) = StepCap

C4_Bounds ==
    /\ \A e \in CurrentEnergies : best_E <= e
    /\ \A k \in 1..Len(best_energies) :
         /\ k <= Len(energies)
         /\ best_energies[k] <= energies[k]
         /\ (k > 1 => best_energies[k] <= best_energies[k - 1])

\* C4: the best energy is the running minimum of the initial energy and of
\* every energy held so far by the chain or by any replica: it starts as the
\* initial energy and every step leaves it at the minimum of its old value and
\* of the energies then held; so best_energies is non-increasing,
\* best_energies[t] <= energies[t], and best_E <= E_r for every replica at
\* all times, exchange sweeps included.
C4_BestIsRunningMinimum ==
    /\ best_E = SetMin(CurrentEnergies)
    /\ []C4_Bounds
    /\ [][best_E' = SetMin({best_E} \cup CurrentEnergies')]_vars

\* C4 witness: after an exchange sweep slot 0 holds a higher energy than the
\* best, which it held when the trace was appended
C4_Witness ==
    /\ algo = "remc" /\ pc = "loop"
    /\ Len(energies) = 1 /\ energies[1] = 0 - 1
    /\ replicas_E[0] = 0 /\ replicas_E[1] = 0 - 1
    /\ best_E = 0 - 1

\* C5: the best record satisfies E_best = E(C_best, S) at every step; with at
\* least one step the returned best_energy equals min(best_energies), equals
\* the energy recomputed from the returned best_coords, and is <= 0.
C5_BestEnergyMatchesBestCoords ==
    /\ best_E = energy_hp(best_coords, hp_seq)
    /\ best_E = 0 - Cardinality(HHContacts(best_coords, hp_seq))
    /\ (pc = "done" /\ Len(result.best_energies) >= 1) =>
         /\ result.best_energy = SetMin(Range(result.best_energies))
         /\ result.best_energy = energy_hp(result.best_coords, hp_seq)
         /\ result.best_energy <= 0

\* C5 witness: run_mc returned a best conformation of energy -1 after the
\* chain had left it
C5_Witness ==
    /\ algo = "mc" /\ pc = "done"
    /\ result.best_energy = 0 - 1
    /\ result.final_coords # result.best_coords
    /\ energy_hp(result.final_coords, hp_seq) = 0

-----------------------------------------------------------------------------
(* Properties of the Metropolis test in the drivers (Spec) *)

\* the energy and the conformation of the chain (mc) or of replica r (remc)
\* that the pending proposal is compared with
HeldEnergy == IF algo = "mc" THEN E ELSE replicas_E[r]

HeldCoords == IF algo = "mc" THEN coords ELSE replicas_coords[r]

\* a proposal is waiting for the Metropolis test
Deciding == pc = "decide" /\ proposal # None

\* E' - E of the pending proposal
DeltaE == energy_hp(proposal, hp_seq) - HeldEnergy

\* the chain or replica r holds the proposal and its energy in the next state
ProposalTaken ==
    IF algo = "mc"
    THEN coords' = proposal /\ E' = energy_hp(proposal, hp_seq)
    ELSE /\ replicas_coords' = [replicas_coords EXCEPT ![r] = proposal]
         /\ replicas_E' = [replicas_E EXCEPT ![r] = energy_hp(proposal, hp_seq)]

\* C11: a proposal with E' - E <= 0 is always accepted: the step that decides
\* it leaves the chain (or replica) holding C' with energy E'; a proposal with
\* E' - E > 0 can be accepted and can be rejected.
C11_NonUphillAlwaysAccepted ==
    /\ [][(Deciding /\ DeltaE <= 0) => ProposalTaken]_vars
    /\ []((Deciding /\ DeltaE > 0) =>
            /\ ENABLED (MCAccept \/ REMCAccept)
            /\ ENABLED (MCReject \/ REMCReject))

\* after one step the chain holds another conformation of the same energy: a
\* proposal with E' - E = 0 was accepted
C11_Witness ==
    /\ algo = "mc" /\ t = 1
    /\ coords # initial_line(Size(hp_seq))
    /\ E = energy_hp(initial_line(Size(hp_seq)), hp_seq)

-----------------------------------------------------------------------------
(* Properties of the exchange sweep of run_remc (Spec) *)

\* an exchange attempt on the pair (ex_i, ex_i + 1) is about to be made
ExchangeAttempt == algo = "remc" /\ pc = "exchange" /\ ex_i < n_replicas - 1

\* f with the values of slots a and b exchanged, every other slot as in f
Exchanged(f, a, b) ==
    [k \in DOMAIN f |-> IF k = a THEN f[b] ELSE IF k = b THEN f[a] ELSE f[k]]

\* the number of slots that hold the (conformation, energy) pair p
PairCount(rc, re, p) == Cardinality({k \in DOMAIN rc : <<rc[k], re[k]>> = p})

\* C12: an exchange attempt on (i, j = i + 1) either swaps the conformations
\* and the energies of slots i and j together or changes neither; it leaves
\* the temperatures, every other replica, the best record and both traces
\* unchanged; every step of an exchange sweep only permutes the
\* (conformation, energy) pairs held by the replicas.
C12_ExchangeSwapsPairsOnly ==
    /\ [][ExchangeAttempt =>
            /\ \/ /\ replicas_coords' = Exchanged(replicas_coords, ex_i, ex_i + 1)
                  /\ replicas_E' = Exchanged(replicas_E, ex_i, ex_i + 1)
               \/ /\ replicas_coords' = replicas_coords
                  /\ replicas_E' = replicas_E
            /\ temps' = temps
            /\ best_E' = best_E /\ best_coords' = best_coords
            /\ energies' = energies /\ best_energies' = best_energies]_vars
    /\ [][(algo = "remc" /\ pc = "exchange") =>
            /\ DOMAIN replicas_coords' = DOMAIN replicas_coords
            /\ \A k \in DOMAIN replicas_coords :
                 PairCount(replicas_coords', replicas_E', <<replicas_coords[k], replicas_E[k]>>)
                   = PairCount(replicas_coords, replicas_E, <<replicas_coords[k], replicas_E[k]>>)
            /\ temps' = temps]_vars

\* the pair (0, 1) has been visited in the sweep of step 1 and slot 0 no
\* longer holds the energy that was appended to the trace before the sweep:
\* the two slots, of different energies, were swapped
C12_Witness ==
    /\ algo = "remc" /\ pc = "exchange" /\ n_replicas = 2
    /\ step = 1 /\ ex_i = 2
    /\ energies[1] # replicas_E[0]
    /\ energies[1] = replicas_E[1]

\* the number of the sweep that belongs to step s, when s is a multiple of
\* exchange_every: sweeps are numbered 1, 2, ... in the order they are made
SweepNumber(s) == s \div exchange_every

\* C13: a sweep is made at step s exactly when s mod exchange_every = 0; the
\* m-th sweep starts at pair (0,1) when m is odd and at pair (1,2) when m is
\* even and goes up two slots at a time until the pairs are exhausted, so that
\* no replica is in two attempts of one sweep.
C13_SweepSchedule ==
    /\ [][(algo = "remc" /\ pc = "move" /\ pc' # "move" /\ pc' # "decide") =>
            /\ (pc' = "exchange") <=> (step % exchange_every = 0)
            /\ (pc' # "exchange") => (pc' = "loop")
            /\ (pc' = "exchange") => (ex_i' = (SweepNumber(step) - 1) % 2)]_vars
    /\ [][(pc # "exchange" /\ pc' = "exchange") => (algo = "remc" /\ pc = "move")]_vars
    /\ []((algo = "remc" /\ pc = "exchange") =>
            /\ step % exchange_every = 0
            /\ SweepNumber(step) >= 1
            /\ ex_i % 2 = (SweepNumber(step) - 1) % 2
            /\ even <=> (SweepNumber(step) % 2 = 1))
    /\ [][(algo = "remc" /\ pc = "exchange") =>
            /\ ExchangeAttempt => (ex_i' = ex_i + 2 /\ pc' = "exchange")
            /\ ~ExchangeAttempt => (pc' = "loop" /\ even' = ~even)
            /\ step' = step]_vars

\* the second sweep of a run of four replicas has visited the pair (1, 2) and
\* stops there, (3, 4) being no pair
C13_Witness ==
    /\ algo = "remc" /\ pc = "exchange" /\ n_replicas = 4
    /\ exchange_every = 1 /\ step = 2
    /\ ex_i = 3

\* the temperatures and the energies of the pair that is about to be tried
T_i == temps[ex_i]

T_j == temps[ex_i + 1]

E_i == replicas_E[ex_i]

E_j == replicas_E[ex_i + 1]

\* delta = (1/T_j - 1/T_i)(E_i - E_j) >= 0, written without the divisions: for
\* positive temperatures (E_i - E_j)/T_j >= (E_i - E_j)/T_i
DeltaNonNegative == (E_i - E_j) * T_i >= (E_i - E_j) * T_j

\* the next state holds the two slots swapped
PairSwapped ==
    /\ replicas_coords' = Exchanged(replicas_coords, ex_i, ex_i + 1)
    /\ replicas_E' = Exchanged(replicas_E, ex_i, ex_i + 1)

\* C14: in an exchange attempt the swap is made unconditionally when
\* delta >= 0 and may be made or skipped when delta < 0; with T_i < T_j the swap
\* is certain exactly when E_i <= E_j.
C14_ExchangeAcceptance ==
    /\ [][(ExchangeAttempt /\ DeltaNonNegative) => PairSwapped]_vars
    /\ []((ExchangeAttempt /\ ~DeltaNonNegative) =>
            (ENABLED REMCSwap /\ ENABLED REMCNoSwap))
    /\ []((ExchangeAttempt /\ T_i < T_j) => ((~ENABLED REMCNoSwap) <=> (E_i <= E_j)))

\* the pair (0, 1), colder slot holding the higher energy (delta < 0), has
\* been tried in the sweep of step 1 and was not swapped: slot 0 still holds
\* the energy that the trace recorded before the sweep
C14_Witness ==
    /\ algo = "remc" /\ pc = "exchange" /\ n_replicas = 2
    /\ step = 1 /\ ex_i = 2
    /\ temps[0] < temps[1]
    /\ replicas_E[0] > replicas_E[1]
    /\ energies[1] = replicas_E[0]

\* C20: with T_i < T_j an exchange attempt in which the colder slot holds the
\* strictly higher energy (E_i > E_j) is always accepted: the step that
\* decides it swaps the pair.
C20_ColderHigherEnergyAlwaysSwapped ==
    [][(ExchangeAttempt /\ T_i < T_j /\ E_i > E_j) => PairSwapped]_vars

-----------------------------------------------------------------------------
(* Properties of the results of the drivers (Spec) *)

\* C15: run_remc returns as final_coords the conformation that slot 0 holds
\* after the last step, its exchange sweep included, except that it returns
\* best_coords when best_energy is strictly lower than slot 0's energy; the
\* return itself changes no replica.
C15_RemcFinalCoords ==
    /\ []((algo = "remc" /\ pc = "done") =>
            /\ result.best_energy = best_E
            /\ result.best_coords = best_coords
            /\ (best_E < replicas_E[0]) => (result.final_coords = best_coords)
            /\ (best_E >= replicas_E[0]) => (result.final_coords = replicas_coords[0]))
    /\ [][(algo = "remc" /\ pc' = "done") =>
            (replicas_coords' = replicas_coords /\ replicas_E' = replicas_E
               /\ best_E' = best_E /\ best_coords' = best_coords)]_vars

\* a run of one step has returned: slot 0 reached the best energy in its
\* move, lost it to slot 1 in the sweep, and final_coords is best_coords, not
\* the conformation of slot 0
C15_Witness ==
    /\ algo = "remc" /\ pc = "done" /\ n_replicas = 2 /\ step = 1
    /\ energies[1] = best_E
    /\ best_E < replicas_E[0]
    /\ result.final_coords = best_coords
    /\ result.final_coords # replicas_coords[0]

\* the straight line [(0,0), (1,0), ..., (n-1,0)]
StraightLine(n) == [k \in 0..(n - 1) |-> <<k, 0>>]

\* C16: with steps = 0 both drivers return at once, with energies = [] and
\* best_energies = [], best_energy = 0, and best_coords = final_coords = the
\* straight line, for any HP sequence.
C16_ZeroSteps ==
    /\ []((steps_arg = 0 /\ pc = "done") =>
            /\ result.energies = << >>
            /\ result.best_energies = << >>
            /\ result.best_energy = 0
            /\ result.best_coords = StraightLine(Size(hp_seq))
            /\ result.final_coords = StraightLine(Size(hp_seq)))
    /\ []((steps_arg = 0 /\ pc # "done") => ENABLED (MCReturn \/ REMCReturn))
    /\ [][steps_arg = 0 => pc' = "done"]_vars

\* a run on HHHH with steps = 0 has returned
C16_Witness ==
    /\ steps_arg = 0 /\ pc = "done"
    /\ hp_seq = SeqOf(<<"H", "H", "H", "H">>)
    /\ result # None

\* a parameter of the run is invalid: steps <= 0, tmin > tmax (the first and
\* the last temperature of the ladder), or rho outside [0, 1]
InvalidParameters ==
    \/ steps_arg <= 0
    \/ (algo = "remc" /\ temps[0] > temps[n_replicas - 1])
    \/ rho < 0
    \/ rho > 100

\* C17: a run called with an invalid parameter (steps <= 0, tmin > tmax, rho
\* outside [0, 1]) returns no result structure.
C17_InvalidParametersRejected ==
    (algo \in {"mc", "remc"} /\ InvalidParameters) => (pc # "done" /\ result = None)

-----------------------------------------------------------------------------
(* Properties of the steps without an accepted proposal (Spec) *)

\* attempt_move has returned and the next state does not hold a proposal
\* taken over: there was no proposal, or it is rejected
NotAccepted == pc = "decide" /\ ~ProposalTaken

\* C18: a step in which attempt_move returns no proposal, or in which the
\* proposal is rejected, leaves the conformation and the energy of the chain
\* (or of that replica) and the best record unchanged and raises no error;
\* run_mc appends the unchanged values to both traces and goes to the next
\* step, run_remc goes to the next replica and appends at the end of the step.
C18_NoProposalOrRejectedKeepsState ==
    /\ [][(algo = "mc" /\ NotAccepted) =>
            /\ coords' = coords /\ E' = E
            /\ best_E' = best_E /\ best_coords' = best_coords
            /\ energies' = Append(energies, E)
            /\ best_energies' = Append(best_energies, best_E)
            /\ t' = t + 1 /\ pc' = "loop" /\ result' = None]_vars
    /\ [][(algo = "remc" /\ NotAccepted) =>
            /\ replicas_coords' = replicas_coords /\ replicas_E' = replicas_E
            /\ best_E' = best_E /\ best_coords' = best_coords
            /\ energies' = energies /\ best_energies' = best_energies
            /\ r' = r + 1 /\ step' = step /\ pc' = "move" /\ result' = None]_vars
    /\ [][(pc = "decide" /\ proposal = None) => ~ProposalTaken]_vars
    /\ []((pc = "decide" /\ proposal = None) => ENABLED (MCNoProposal \/ REMCNoProposal))

\* run_mc on the chain of two residues in pull mode, where attempt_move never
\* finds a proposal: two steps are recorded with the initial energy, the chain
\* is where it started and the loop is at its third step
C18_Witness ==
    /\ algo = "mc" /\ Size(hp_seq) = 2 /\ move_mode = "pull"
    /\ attempt_move(coords, move_mode, rho) = {None}
    /\ pc = "decide" /\ t = 2
    /\ energies = <<E, E>>
    /\ coords = StraightLine(2)

-----------------------------------------------------------------------------
(* Properties of the order of events in a step of run_remc (Spec) *)

\* C19: in every step of run_remc the replicas r = 0, 1, ..., n_replicas - 1
\* make their move attempts in ascending order, then one entry is appended to
\* each trace (slot 0's energy and the best energy), then, if due, the
\* exchange attempts are made in ascending pair order; energies[s] is slot
\* 0's energy after the moves of step s and before its sweep, and no swap
\* changes it.
C19_StepOrder ==
    /\ []((algo = "remc" /\ pc \in {"move", "decide"}) =>
            /\ Len(energies) = step - 1 /\ Len(best_energies) = step - 1
            /\ r \in 0..n_replicas
            /\ (pc = "decide") => (r < n_replicas))
    /\ []((algo = "remc" /\ pc \in {"exchange", "loop", "done"}) =>
            (Len(energies) = step /\ Len(best_energies) = step))
    /\ [][(algo = "remc" /\ pc = "loop" /\ pc' # "done") =>
            (pc' = "move" /\ r' = 0 /\ step' = step + 1)]_vars
    /\ [][(algo = "remc" /\ pc = "move" /\ r < n_replicas) =>
            (pc' = "decide" /\ r' = r /\ replicas_coords' = replicas_coords
               /\ replicas_E' = replicas_E)]_vars
    /\ [][(algo = "remc" /\ pc = "decide") =>
            /\ pc' = "move" /\ r' = r + 1
            /\ \A k \in (DOMAIN replicas_E) \ {r} :
                 replicas_E'[k] = replicas_E[k] /\ replicas_coords'[k] = replicas_coords[k]]_vars
    /\ [][(algo = "remc" /\ pc = "move" /\ r >= n_replicas) =>
            /\ energies' = Append(energies, replicas_E[0])
            /\ best_energies' = Append(best_energies, best_E)
            /\ replicas_coords' = replicas_coords /\ replicas_E' = replicas_E
            /\ pc' \in {"exchange", "loop"}]_vars
    /\ [][(algo = "remc" /\ pc = "exchange") =>
            /\ energies' = energies /\ best_energies' = best_energies
            /\ ex_i' >= ex_i
            /\ pc' \in {"exchange", "loop"}]_vars
    /\ [][(algo = "remc" /\ (energies' # energies \/ best_energies' # best_energies)) =>
            (pc = "move" /\ r >= n_replicas)]_vars

\* a run of one step has returned after a swap of the pair (0, 1) in the
\* sweep of that step: the returned energies[1] is the energy slot 0 held
\* before the sweep, which is now in slot 1, not the one it holds at the end
C19_Witness ==
    /\ algo = "remc" /\ pc = "done" /\ n_replicas = 2
    /\ steps = 1 /\ exchange_every = 1
    /\ result.energies = <<replicas_E[1]>>
    /\ replicas_E[0] # replicas_E[1]

-----------------------------------------------------------------------------
(* Properties of the mode selection (SpecMoves) *)

\* attempt_move has returned in hybrid mode
HybridReturned == algo = "moves" /\ pc = "returned" /\ move_mode = "hybrid"

\* C21: hybrid mode tries the kind chosen first and, when it yields no
\* proposal, the other kind once: every hybrid result is a possible Pull
\* proposal or a possible VSHD proposal, the kind tried first wins when it has
\* a proposal, and None is returned only when neither kind has one.
C21_HybridFallsThroughOnce ==
    HybridReturned =>
        /\ (proposal # None) => (proposal \in pull_moves(coords) \cup vshd_moves(coords))
        /\ (proposal = None) => (pull_moves(coords) = {} /\ vshd_moves(coords) = {})
        /\ (rho = 100 /\ pull_moves(coords) # {}) => (proposal \in pull_moves(coords))
        /\ (rho = 100 /\ pull_moves(coords) = {} /\ vshd_moves(coords) # {}) =>
              (proposal \in vshd_moves(coords))
        /\ (rho = 0 /\ vshd_moves(coords) # {}) => (proposal \in vshd_moves(coords))
        /\ (rho = 0 /\ vshd_moves(coords) = {} /\ pull_moves(coords) # {}) =>
              (proposal \in pull_moves(coords))

\* Pull was tried first (rho = 1) on the chain of two residues, where it has
\* no proposal, and the result is a VSHD proposal
C21_Witness ==
    /\ HybridReturned /\ rho = 100
    /\ Size(coords) = 2
    /\ pull_moves(coords) = {}
    /\ proposal # None
    /\ proposal \in vshd_moves(coords)

-----------------------------------------------------------------------------
(* Scenarios of the move engine (SpecMoves) *)

\* the Pull move was called on the straight chain of five residues
PullScenario ==
    /\ algo = "moves" /\ pc = "returned" /\ move_mode = "pull"
    /\ coords = StraightLine(5)

\* what the loop body returns there for pivot i = 2 and the rotation (0, -1)
PullScenarioResult == pull_at(coords, 2, <<0, 0 - 1>>)

\* C22: the Pull move on the straight chain of five residues at pivot i = 2
\* with rotation (0, -1) yields C[2] = (2, -1) and C[1] = (1, -1), the
\* propagation sets C[0] to the old C[1] = (1, 0), residues 3 and 4 stay in
\* place and the result is self-avoiding.
C22_PullScenarioAsClaimed ==
    PullScenario =>
        /\ PullScenarioResult # None
        /\ PullScenarioResult[2] = <<2, 0 - 1>>
        /\ PullScenarioResult[1] = <<1, 0 - 1>>
        /\ PullScenarioResult[0] = <<1, 0>>
        /\ PullScenarioResult[3] = <<3, 0>> /\ PullScenarioResult[4] = <<4, 0>>
        /\ Cardinality(Range(PullScenarioResult)) = 5

\* C22, amended: the same move yields C[2] = (3, -1) and C[1] = (2, -1), the
\* propagation sets C[0] to the old C[2] = (2, 0), residues 3 and 4 stay in
\* place and the result is connected and self-avoiding; it is one of the
\* proposals the Pull move can return.
C22_PullScenario ==
    PullScenario =>
        /\ PullScenarioResult # None
        /\ PullScenarioResult[2] = <<3, 0 - 1>>
        /\ PullScenarioResult[1] = <<2, 0 - 1>>
        /\ PullScenarioResult[0] = coords[2] /\ PullScenarioResult[0] = <<2, 0>>
        /\ PullScenarioResult[3] = <<3, 0>> /\ PullScenarioResult[4] = <<4, 0>>
        /\ IsConformation(PullScenarioResult, 5)
        /\ PullScenarioResult \in attempt_move(coords, move_mode, rho)

\* the scenario has happened: the Pull move returned that proposal
C22_Witness ==
    /\ PullScenario
    /\ proposal # None
    /\ proposal = PullScenarioResult

\* the VSHD move was called on the straight chain of three residues
EndScenario ==
    /\ algo = "moves" /\ pc = "returned" /\ move_mode = "vshd"
    /\ coords = StraightLine(3)

\* C23: the end move on [(0,0),(1,0),(2,0)] applied to end 0 (anchor (1,0))
\* has exactly the candidate placements (1,1) and (1,-1), the cells (0,0) and
\* (2,0) being excluded; whichever is chosen, only residue 0 moves and the
\* result is connected and self-avoiding; each can be returned.
C23_EndScenario ==
    EndScenario =>
        /\ end_candidates(coords, 0) = {<<1, 1>>, <<1, 0 - 1>>}
        /\ \A cand \in end_candidates(coords, 0) :
             LET newc == [coords EXCEPT ![0] = cand]
             IN /\ newc \in attempt_move(coords, move_mode, rho)
                /\ newc[1] = <<1, 0>> /\ newc[2] = <<2, 0>>
                /\ IsConformation(newc, 3)
        /\ (proposal # None /\ proposal[0] # coords[0]) =>
              /\ proposal[0] \in {<<1, 1>>, <<1, 0 - 1>>}
              /\ proposal[1] = coords[1] /\ proposal[2] = coords[2]
              /\ IsConformation(proposal, 3)

\* the end move of end 0 was returned: residue 0 is at (1,1)
C23_Witness ==
    /\ EndScenario
    /\ proposal # None
    /\ proposal = [coords EXCEPT ![0] = <<1, 1>>]

-----------------------------------------------------------------------------
(* Properties of the VSHD and Pull proposals (SpecMoves, Spec) *)

\* the residues whose coordinate differs between c and d
Moved(c, d) == {k \in DOMAIN c : d[k] # c[k]}

PullKeepsTail ==
    \A c \in AllConformations :
        \A i \in 1..(Size(c) - 2) :
            \A sh \in pull_shifts(c, i) :
                LET d == pull_at(c, i, sh)
                IN (d # None) => (\A k \in (i + 1)..(Size(c) - 1) : d[k] = c[k])

\* C25: a Pull proposal with pivot i leaves every residue with index > i
\* unchanged and the pivot is never n - 1; in a run with move_mode = 'pull'
\* the last residue stays at (n-1, 0) in every chain and replica, and for
\* n = 2 no proposal is ever produced, the conformation stays the straight
\* line and all trace entries are 0.
C25_PullKeepsLastResidue ==
    (algo \in {"mc", "remc"} /\ move_mode = "pull") =>
        LET n == Size(hp_seq)
        IN /\ PullKeepsTail
           /\ \A c \in CurrentConformations : c[n - 1] = <<n - 1, 0>>
           /\ best_coords[n - 1] = <<n - 1, 0>>
           /\ (pc = "decide" /\ proposal # None) =>
                 /\ proposal \in pull_moves(HeldCoords)
                 /\ \E i \in 1..(n - 2) :
                      /\ proposal[i] # HeldCoords[i]
                      /\ Moved(HeldCoords, proposal) \subseteq 0..i
           /\ (n = 2) =>
                 /\ proposal = None
                 /\ \A c \in CurrentConformations : c = StraightLine(2)
                 /\ \A k \in DOMAIN energies : energies[k] = 0
                 /\ \A k \in DOMAIN best_energies : best_energies[k] = 0

\* a run in pull mode on four residues has made two steps and holds a
\* conformation whose first three residues have all moved, the last one
\* being where it started
C25_Witness ==
    /\ algo = "mc" /\ move_mode = "pull" /\ Size(hp_seq) = 4
    /\ t = 2
    /\ Moved(StraightLine(4), coords) = {0, 1, 2}
    /\ coords[3] = <<3, 0>>

-----------------------------------------------------------------------------
(* Properties of the cached energies and of the returned conformation (Spec) *)

\* C26: the cached energies agree with the conformations in every reachable
\* state: E = energy_hp(coords, S) in run_mc, and replicas_E[r] =
\* energy_hp(replicas_coords[r], S) for every replica r in run_remc, also
\* right after an exchange attempt, accepted or not.
C26_CachedEnergiesConsistent ==
    /\ (algo = "mc") => (E = energy_hp(coords, hp_seq))
    /\ (algo = "remc") =>
          /\ DOMAIN replicas_E = 0..(n_replicas - 1)
          /\ DOMAIN replicas_coords = 0..(n_replicas - 1)
          /\ \A k \in 0..(n_replicas - 1) :
               replicas_E[k] = energy_hp(replicas_coords[k], hp_seq)

\* the sweep of step 1 is over and it swapped two replicas of different
\* energies: slot 0 no longer holds the energy recorded before the sweep
C26_Witness ==
    /\ algo = "remc" /\ pc = "loop" /\ step = 1 /\ exchange_every = 1
    /\ energies[1] # replicas_E[0]
    /\ replicas_E[0] = energy_hp(replicas_coords[0], hp_seq)
    /\ replicas_E[0] # replicas_E[1]

\* C27: the final_coords returned by run_remc has exactly the returned
\* best_energy as its energy, also when it is not the same conformation as
\* best_coords and when its energy is not the last entry of energies.
C27_FinalCoordsHasBestEnergy ==
    (algo = "remc" /\ pc = "done") =>
        energy_hp(result.final_coords, hp_seq) = result.best_energy

\* a run has returned a final_coords that is another conformation than
\* best_coords and whose energy is not the last entry of energies: after the
\* last trace entry slot 0 received, in the sweep, a second conformation of
\* the best energy
C27_Witness ==
    /\ algo = "remc" /\ pc = "done" /\ steps >= 1
    /\ result.final_coords # result.best_coords
    /\ result.energies[Len(result.energies)] # energy_hp(result.final_coords, hp_seq)
    /\ energy_hp(result.final_coords, hp_seq) = result.best_energy

====
